---- MODULE Spec2Model ----
(***************************************************************************)
(* State-machine model of the Jobsuche MCP server (src/lib.rs):           *)
(*   - the batch orchestrator  JobsucheMcpServer::batch_search_jobs,      *)
(*   - the connectivity probe  JobsucheMcpServer::get_server_status,      *)
(*   - the API client          JobsucheClient::search / job_details,      *)
(*   - the response normalizer inside search_jobs and get_job_details.    *)
(*                                                                         *)
(* Rust Option<T> values are sequences of length 0 (None) or 1 (Some(x)). *)
(* Indices search_idx and detail_idx are 0-based as in the Rust loops.    *)
(* An async fn is cut at its .await points: every action runs the code    *)
(* from the completion of one await up to the start of the next.          *)
(***************************************************************************)
EXTENDS Integers, Sequences, FiniteSets, TLC

VARIABLES
    config,                  \* self.config: the configured page sizes
    op,                      \* which top-level operation was called
    searches,                \* params.searches (the names of the items)
    max_details_per_search,  \* params.max_details_per_search : Option<u64>
    avail,                   \* upstream: summaries a well-behaved search returns
    pc,                      \* position of the call (which await it is parked on)
    search_idx,              \* loop index of the outer for loop
    detail_idx,              \* loop index of the inner for loop
    search_result,           \* Option<SearchJobsResult> of the current item
    jobs_with_details,       \* Vec<GetJobDetailsResult> of the current item
    results,                 \* Vec<BatchSearchItemResult>
    ret,                     \* Option<returned value> of the call
    log,                     \* history: upstream calls, their returns, delays
    faults,                  \* upstream deviations so far (bounded)
    ext,                     \* normalizer: the external record
    norm                     \* normalizer: Option<normalized record>

vars == <<config, op, searches, max_details_per_search, avail, pc, search_idx,
          detail_idx, search_result, jobs_with_details, results, ret, log,
          faults, ext, norm>>

batchVars == <<config, op, searches, max_details_per_search, avail, pc, search_idx,
               detail_idx, search_result, jobs_with_details, results, ret,
               log, faults>>

normVars == <<ext, norm>>

\* ------------------------------------------------------------------ bounds
MaxSearches == 6
MaxDetailsReq == 6
MaxSummaries == 6
MaxFaults == 1

\* ------------------------------------------------------- program constants
MaxBatchSearches == 5
MaxDetailsCap == 5
DefaultDetails == 2
SearchPacingMs == 200
DetailPacingMs == 100
StatusProbeSize == 1

\* ----------------------------------------------------------------- helpers
None == <<>>
Some(x) == <<x>>
IsSome(o) == Len(o) = 1
IsNone(o) == Len(o) = 0
Unwrap(o) == o[1]
UnwrapOr(o, d) == IF IsSome(o) THEN o[1] ELSE d
Min(a, b) == IF a <= b THEN a ELSE b

\* The name of the i-th requested search and the reference number of the
\* j-th summary of a search response (both 1-based here).
SearchNames == <<"s1", "s2", "s3", "s4", "s5", "s6", "s7", "s8">>
RefNrs == <<"10001-1", "10001-2", "10001-3", "10001-4", "10001-5",
            "10001-6", "10001-7", "10001-8">>

\* ------------------------------------------------------ response normalizer
CanonicalUrlPrefix == "https://www.arbeitsagentur.de/jobsuche/jobdetail/"
CanonicalUrl(refnr) == CanonicalUrlPrefix \o refnr

\* search_jobs: format!("{}{}", ort.unwrap_or(""), plz.map(" ({})").unwrap_or_default())
SummaryLocation(ort, plz) ==
    UnwrapOr(ort, "") \o (IF IsSome(plz) THEN " (" \o Unwrap(plz) \o ")" ELSE "")

\* search_jobs: job.externe_url.clone().unwrap_or_else(|| canonical url)
SummaryApplicationUrl(externe_url, refnr) ==
    IF IsSome(externe_url) THEN Unwrap(externe_url) ELSE CanonicalUrl(refnr)

\* search_jobs: job.titel.clone().unwrap_or_else(|| job.beruf.clone())
SummaryTitle(titel, beruf) == UnwrapOr(titel, beruf)

\* search_jobs: the closure mapping one ApiJobListing to one JobSummary
JobSummaryOf(job) ==
    [reference_number |-> job.refnr,
     title            |-> SummaryTitle(job.titel, job.beruf),
     location         |-> SummaryLocation(job.ort, job.plz),
     external_url     |-> job.externe_url,
     application_url  |-> SummaryApplicationUrl(job.externe_url, job.refnr)]

\* get_job_details: first workplace address, its town, optional postal code
DetailLocation(arbeitsorte) ==
    IF IsNone(arbeitsorte) THEN None
    ELSE LET locs == Unwrap(arbeitsorte) IN
         IF Len(locs) = 0 THEN None
         ELSE LET adresse == locs[1].adresse IN
              IF IsNone(adresse) THEN None
              ELSE LET addr == Unwrap(adresse) IN
                   IF IsNone(addr.ort) THEN None
                   ELSE IF IsSome(addr.plz)
                        THEN Some(Unwrap(addr.ort) \o " (" \o Unwrap(addr.plz) \o ")")
                        ELSE Some(Unwrap(addr.ort))

\* Mutant: a range with neither side renders as an absent field.
EntryPeriodNoneWhenEmpty(eintrittszeitraum) ==
    IF IsNone(eintrittszeitraum) THEN None
    ELSE LET dr == Unwrap(eintrittszeitraum) IN
         IF IsSome(dr.von) /\ IsSome(dr.bis)
             THEN Some(Unwrap(dr.von) \o " - " \o Unwrap(dr.bis))
         ELSE IF IsSome(dr.von) THEN Some("ab " \o Unwrap(dr.von))
         ELSE IF IsSome(dr.bis) THEN Some("bis " \o Unwrap(dr.bis))
         ELSE None

\* get_job_details: details.eintrittszeitraum.as_ref().map(|dr| match (von, bis))
EntryPeriod(eintrittszeitraum) ==
    IF IsNone(eintrittszeitraum) THEN None
    ELSE LET dr == Unwrap(eintrittszeitraum) IN
         IF IsSome(dr.von) /\ IsSome(dr.bis)
             THEN Some(Unwrap(dr.von) \o " - " \o Unwrap(dr.bis))
         ELSE IF IsSome(dr.von) THEN Some("ab " \o Unwrap(dr.von))
         ELSE IF IsSome(dr.bis) THEN Some("bis " \o Unwrap(dr.bis))
         ELSE Some("")

\* get_job_details: externe_url.or_else(partner url).unwrap_or_else(canonical url)
DetailApplicationUrl(externe_url, allianzpartner_url, refnr) ==
    IF IsSome(externe_url) THEN Unwrap(externe_url)
    ELSE IF IsSome(allianzpartner_url) THEN Unwrap(allianzpartner_url)
    ELSE CanonicalUrl(refnr)

\* get_job_details: the GetJobDetailsResult built from one ApiJobDetails
GetJobDetailsResultOf(refnr, details) ==
    [reference_number |-> refnr,
     title            |-> details.titel,
     location         |-> DetailLocation(details.arbeitsorte),
     entry_period     |-> EntryPeriod(details.eintrittszeitraum),
     external_url     |-> details.externe_url,
     partner_url      |-> details.allianzpartner_url,
     application_url  |-> DetailApplicationUrl(details.externe_url,
                              details.allianzpartner_url, refnr)]

\* ------------------------------------------------- inputs of the normalizer
OptUrls == {None, Some(""), Some("https://jobs.example.org/a")}
OptTitles == {None, Some(""), Some("Pflegefachkraft")}
Berufe == {"", "Altenpfleger"}
Orte == {None, Some("Berlin")}
Plzs == {None, Some("10115")}
OptDates == {None, Some("2024-01-01")}
NormRefNrs == {"", "10001-1"}

ApiJobListings ==
    [beruf: Berufe, titel: OptTitles, refnr: NormRefNrs, ort: Orte, plz: Plzs,
     externe_url: OptUrls]

ApiAddresses == [ort: Orte, plz: Plzs]
ApiJobLocations == [adresse: {None} \cup {Some(a) : a \in ApiAddresses}]
Arbeitsorte ==
    {None, Some(<<>>)} \cup {Some(<<l>>) : l \in ApiJobLocations}
        \cup {Some(<<l, [adresse |-> Some([ort |-> Some("Bonn"), plz |-> None])]>>) :
                 l \in ApiJobLocations}
ApiDateRanges == [von: OptDates, bis: {None, Some("2024-06-01")}]
Eintrittszeitraeume == {None} \cup {Some(d) : d \in ApiDateRanges}

ApiJobDetailsRecs ==
    [titel: {None, Some("Pflegefachkraft")}, arbeitsorte: Arbeitsorte,
     eintrittszeitraum: Eintrittszeitraeume, externe_url: OptUrls,
     allianzpartner_url: OptUrls]

\* What the upstream sends in the batch model: the j-th listing of a search
\* response and the details document of a reference number.
UpstreamListing(j) ==
    [beruf |-> "Altenpfleger", titel |-> None, refnr |-> RefNrs[j],
     ort |-> Some("Berlin"), plz |-> Some("10115"), externe_url |-> None]
UpstreamDetails ==
    [titel |-> Some("Pflegefachkraft"), arbeitsorte |-> None,
     eintrittszeitraum |-> None, externe_url |-> None,
     allianzpartner_url |-> None]

\* --------------------------------------------------------------- API client
\* JobsucheClient::search, seen from its caller once the HTTP exchange is over:
\*   ok    - success status and a body that decodes (a missing result list
\*           decodes to the empty list);
\*   err   - send failure, non-success status, or a body that does not decode;
\*   panic - a body that does not decode, WARN logging enabled, and byte 500
\*           of the body inside a multi-byte character: the slice
\*           &text[..text.len().min(500)] panics and nothing is returned.
HttpErrorMsg == "API error: 500 Internal Server Error"
DecodeErrorMsg == "Failed to parse API response: expected value at line 1 column 1"

SearchOk(k, total) ==
    [kind |-> "ok", stellenangebote |-> [j \in 1..k |-> UpstreamListing(j)],
     max_ergebnisse |-> total]
SearchErr(msg) == [kind |-> "err", msg |-> msg]
SearchPanic == [kind |-> "panic"]

\* The well-behaved answer, and the deviations that are counted in faults.
SearchNominal(k) == {SearchOk(k, Some(k))}
SearchFaulty == {SearchErr(HttpErrorMsg), SearchErr(DecodeErrorMsg), SearchOk(0, None)}

\* JobsucheClient::job_details, seen from its caller.
DetailsOk == [kind |-> "ok", details |-> UpstreamDetails]
DetailsErr == [kind |-> "err", msg |-> HttpErrorMsg]

\* search_jobs, after client.search returned Ok(response)
SearchJobsResultOf(response) ==
    [total_results |-> response.max_ergebnisse,
     jobs_count    |-> Len(response.stellenangebote),
     jobs          |-> [j \in 1..Len(response.stellenangebote) |->
                           JobSummaryOf(response.stellenangebote[j])]]

\* ------------------------------------------------------------- history log
\* A search event carries the size query parameter in res.
EvSearch(i, size) ==
    [ev |-> "search", item |-> i, det |-> 0, res |-> size, tot |-> None]
EvSearchRet(i, k, total) ==
    [ev |-> "search_ret", item |-> i, det |-> 0, res |-> k, tot |-> total]
EvDetail(i, j) == [ev |-> "detail", item |-> i, det |-> j, res |-> 0, tot |-> None]
EvDetailRet(i, j, ok) ==
    [ev |-> "detail_ret", item |-> i, det |-> j, res |-> IF ok THEN 1 ELSE 0,
     tot |-> None]
EvSleep(i, ms) == [ev |-> "sleep", item |-> i, det |-> 0, res |-> ms, tot |-> None]
EvWake(i, ms) == [ev |-> "wake", item |-> i, det |-> 0, res |-> ms, tot |-> None]

\* --------------------------------------------------------- batch_search_jobs
\* Mutant: the clamp to 5 searches is missing.
SearchesCountUnclamped(s) == Len(s)

\* let searches_count = params.searches.len().min(5)
SearchesCount(s) == Min(Len(s), MaxBatchSearches)

\* Mutant: the clamp to 5 details per search is missing.
MaxDetailsUnclamped(o) == UnwrapOr(o, DefaultDetails)

\* let max_details = params.max_details_per_search.unwrap_or(2).min(5)
MaxDetails(o) == Min(UnwrapOr(o, DefaultDetails), MaxDetailsCap)

searches_count == SearchesCount(searches)
max_details == MaxDetails(max_details_per_search)

\* Mutant: the configured maximum page size is not applied.
PageSizeUnclamped(requested, cfg) == UnwrapOr(requested, cfg.default_page_size)

\* search_jobs: params.page_size.unwrap_or(default_page_size).min(max_page_size)
PageSize(requested, cfg) ==
    Min(UnwrapOr(requested, cfg.default_page_size), cfg.max_page_size)

\* batch_search_jobs calls search_jobs with page_size: Some(max_details).
BatchPageSize == PageSize(Some(max_details), config)

\* Mutant: the delay is skipped before the second search as well.
NeedsSearchDelayLate(idx) == idx > 1

\* if search_idx > 0 { sleep(200ms) }
NeedsSearchDelay(idx) == idx > 0

\* Mutant: the first detail fetch of a search is delayed as well.
NeedsDetailDelayAlways(idx) == idx >= 0

\* if detail_idx > 0 { sleep(100ms) }
NeedsDetailDelay(idx) == idx > 0

\* if max_details > 0 { for job in search_result.jobs.iter().take(max_details) }
DetailTargets(jobs, md) ==
    IF md > 0 THEN SubSeq(jobs, 1, Min(Len(jobs), md)) ELSE <<>>

\* Mutant: a failed search reports a total of zero results instead of none.
ErrorResultZeroTotal(name, e) ==
    [search_name |-> name, total_results |-> Some(0), jobs_count |-> 0,
     jobs |-> <<>>, error |-> Some("Search failed: " \o e)]

\* The outcome pushed when the search of an item failed.
ErrorResult(name, e) ==
    [search_name |-> name, total_results |-> None, jobs_count |-> 0,
     jobs |-> <<>>, error |-> Some("Search failed: " \o e)]

\* Mutant: jobs_count is the number of summaries, not of gathered details.
OkResultSummaryCount(name, sr, jwd) ==
    [search_name |-> name, total_results |-> sr.total_results,
     jobs_count |-> sr.jobs_count, jobs |-> jwd, error |-> None]

\* The outcome pushed when the search of an item succeeded.
OkResult(name, sr, jwd) ==
    [search_name |-> name, total_results |-> sr.total_results,
     jobs_count |-> Len(jwd), jobs |-> jwd, error |-> None]

\* Mutant: the outcome is inserted at the front of the list.
PushResultFront(res, r) == <<r>> \o res

\* results.push(..)
PushResult(res, r) == Append(res, r)

\* Ok(BatchSearchJobsResult { searches_count: results.len(), results, .. })
BatchReturn(res) == [searches_count |-> Len(res), results |-> res]

\* The Ok arm of the detail match: jobs_with_details.push(details); the Err arm
\* only logs.
GatherDetail(jwd, out, refnr) ==
    IF out.kind = "ok"
        THEN Append(jwd, GetJobDetailsResultOf(refnr, out.details))
        ELSE jwd

\* Mutant: the next detail fetch is sent along with this one, before this one
\* has returned.
IssueDetailAhead(lg, i, j) == Append(Append(lg, EvDetail(i, j)), EvDetail(i, j + 1))

\* The upstream calls issued when the code reaches a get_job_details(..).await
IssueDetail(lg, i, j) == Append(lg, EvDetail(i, j))

\* The upstream call issued when the code reaches search_jobs(..).await
IssueSearch(lg, i, size) == Append(lg, EvSearch(i, size))

\* What the upstream may answer to a search, and to a detail fetch.
SearchOutcomes ==
    SearchNominal(avail) \cup (IF faults < MaxFaults THEN SearchFaulty ELSE {})
        \cup {SearchPanic}
DetailOutcomes == {DetailsOk} \cup (IF faults < MaxFaults THEN {DetailsErr} ELSE {})

\* Top of the outer for loop with index idx, results res and history lg: the
\* code runs to the next await (pacing delay or search), or leaves the loop
\* and returns.
EnterIteration(idx, res, lg) ==
    /\ search_idx' = idx
    /\ results' = res
    /\ detail_idx' = 0
    /\ search_result' = None
    /\ jobs_with_details' = <<>>
    /\ IF idx < Min(searches_count, Len(searches))
          THEN /\ ret' = None
               /\ IF NeedsSearchDelay(idx)
                     THEN /\ pc' = "sleep_search"
                          /\ log' = Append(lg, EvSleep(idx, SearchPacingMs))
                     ELSE /\ pc' = "await_search"
                          /\ log' = IssueSearch(lg, idx, BatchPageSize)
          ELSE /\ pc' = "done"
               /\ ret' = Some(BatchReturn(res))
               /\ log' = lg

\* Top of the inner for loop with index j: the code runs to the next await
\* (pacing delay or detail fetch), or leaves the loop, pushes the outcome of
\* the item and goes on with the outer loop.
EnterDetail(j, sr, jwd, lg) ==
    IF j < Len(DetailTargets(sr.jobs, max_details))
       THEN /\ detail_idx' = j
            /\ search_result' = Some(sr)
            /\ jobs_with_details' = jwd
            /\ UNCHANGED <<search_idx, results, ret>>
            /\ IF NeedsDetailDelay(j)
                  THEN /\ pc' = "sleep_detail"
                       /\ log' = Append(lg, EvSleep(search_idx, DetailPacingMs))
                  ELSE /\ pc' = "await_detail"
                       /\ log' = IssueDetail(lg, search_idx, j)
       ELSE EnterIteration(search_idx + 1,
                PushResult(results,
                    OkResult(searches[search_idx + 1], sr, jwd)), lg)

\* batch_search_jobs is called: lines 622-653, up to the first await.
BatchCall ==
    /\ pc = "idle"
    /\ op = "batch"
    /\ EnterIteration(0, <<>>, <<>>)
    /\ UNCHANGED <<config, op, searches, max_details_per_search, avail, faults, normVars>>

\* The 200 ms delay before a search is over: lines 636-653.
SearchWake ==
    /\ pc = "sleep_search"
    /\ pc' = "await_search"
    /\ log' = IssueSearch(Append(log, EvWake(search_idx, SearchPacingMs)), search_idx,
                        BatchPageSize)
    /\ UNCHANGED <<config, op, searches, max_details_per_search, avail, search_idx,
                   detail_idx, search_result, jobs_with_details, results, ret,
                   faults, normVars>>

\* self.search_jobs(..).await completes: lines 653-701, up to the next await.
SearchReturns ==
    /\ pc = "await_search"
    /\ op = "batch"
    /\ \E out \in SearchOutcomes :
          /\ faults' = IF out \in SearchFaulty THEN faults + 1 ELSE faults
          /\ CASE out.kind = "panic" ->
                    /\ pc' = "panicked"
                    /\ log' = Append(log, EvSearchRet(search_idx, -1, None))
                    /\ UNCHANGED <<search_idx, detail_idx, search_result,
                                   jobs_with_details, results, ret>>
               [] out.kind = "err" ->
                    EnterIteration(search_idx + 1,
                        PushResult(results,
                            ErrorResult(searches[search_idx + 1], out.msg)),
                        Append(log, EvSearchRet(search_idx, -1, None)))
               [] out.kind = "ok" ->
                    EnterDetail(0, SearchJobsResultOf(out), <<>>,
                        Append(log, EvSearchRet(search_idx,
                            Len(out.stellenangebote), out.max_ergebnisse)))
    /\ UNCHANGED <<config, op, searches, max_details_per_search, avail, normVars>>

\* The 100 ms delay before a detail fetch is over: lines 677-681.
DetailWake ==
    /\ pc = "sleep_detail"
    /\ pc' = "await_detail"
    /\ log' = IssueDetail(Append(log, EvWake(search_idx, DetailPacingMs)),
                          search_idx, detail_idx)
    /\ UNCHANGED <<config, op, searches, max_details_per_search, avail, search_idx,
                   detail_idx, search_result, jobs_with_details, results, ret,
                   faults, normVars>>

\* self.get_job_details(..).await completes: lines 682-701, up to the next await.
DetailReturns ==
    /\ pc = "await_detail"
    /\ \E out \in DetailOutcomes :
          LET sr == Unwrap(search_result)
              refnr == sr.jobs[detail_idx + 1].reference_number
          IN /\ faults' = IF out.kind = "err" THEN faults + 1 ELSE faults
             /\ EnterDetail(detail_idx + 1, sr,
                    GatherDetail(jobs_with_details, out, refnr),
                    Append(log, EvDetailRet(search_idx, detail_idx, out.kind = "ok")))
    /\ UNCHANGED <<config, op, searches, max_details_per_search, avail, normVars>>

\* ---------------------------------------------------------- get_server_status
\* Err(e) => format!("Connection Error: {}", e), Ok(_) => "Connected"
ConnectionStatus(out) ==
    IF out.kind = "ok" THEN "Connected" ELSE "Connection Error: " \o out.msg

\* get_server_status is called: lines 720-734, up to the await.
StatusCall ==
    /\ pc = "idle"
    /\ op = "status"
    /\ pc' = "await_status"
    /\ log' = IssueSearch(log, 0, StatusProbeSize)
    /\ UNCHANGED <<config, op, searches, max_details_per_search, avail, search_idx,
                   detail_idx, search_result, jobs_with_details, results, ret,
                   faults, normVars>>

\* self.client.search(..).await completes: lines 734-746.
StatusReturns ==
    /\ pc = "await_status"
    /\ \E out \in SearchOutcomes :
          /\ faults' = IF out \in SearchFaulty THEN faults + 1 ELSE faults
          /\ IF out.kind = "panic"
                THEN /\ pc' = "panicked"
                     /\ ret' = ret
                     /\ log' = Append(log, EvSearchRet(0, -1, None))
                ELSE /\ pc' = "done"
                     /\ ret' = Some([api_connection_status |-> ConnectionStatus(out)])
                     /\ log' = Append(log, EvSearchRet(0,
                                   IF out.kind = "ok" THEN Len(out.stellenangebote)
                                   ELSE -1, None))
    /\ UNCHANGED <<config, op, searches, max_details_per_search, avail, search_idx,
                   detail_idx, search_result, jobs_with_details, results, normVars>>

\* -------------------------------------------------------------- specification
NoRecord == [kind |-> "none"]

\* The configuration: a default and a maximum page size, both positive and
\* the default not above the maximum.
DefaultConfig == [default_page_size |-> 25, max_page_size |-> 100]
ConfigPageSizes == {1, 3, 25, 100}
Configs ==
    {c \in [default_page_size : ConfigPageSizes, max_page_size : ConfigPageSizes] :
        c.default_page_size <= c.max_page_size}

\* Requested batch sizes: empty, small, and the two largest up to MaxSearches
\* (at the limit of 5 and beyond it).
BatchSizes == {0, 1, 2, MaxSearches - 1, MaxSearches}
BatchInputs == {[i \in 1..n |-> SearchNames[i]] : n \in BatchSizes}
\* Upstream result sizes: none, one, and more than any page size asked for.
SummaryCounts == {0, 1, MaxSummaries}
\* Requested detail counts: unspecified, 0, small, and the two largest up to
\* MaxDetailsReq (at the limit of 5 and beyond it).
DetailCounts ==
    {None} \cup {Some(d) : d \in {0, 1, 2, MaxDetailsReq - 1, MaxDetailsReq}}

Init ==
    /\ \/ /\ op = "batch"
          /\ searches \in BatchInputs
          /\ max_details_per_search \in DetailCounts
          /\ avail \in SummaryCounts
       \/ /\ op = "status"
          /\ searches = <<>>
          /\ max_details_per_search = None
          /\ avail \in 0..StatusProbeSize
    /\ config = DefaultConfig
    /\ pc = "idle"
    /\ search_idx = 0
    /\ detail_idx = 0
    /\ search_result = None
    /\ jobs_with_details = <<>>
    /\ results = <<>>
    /\ ret = None
    /\ log = <<>>
    /\ faults = 0
    /\ ext = NoRecord
    /\ norm = None

Next ==
    \/ BatchCall
    \/ SearchWake
    \/ SearchReturns
    \/ DetailWake
    \/ DetailReturns
    \/ StatusCall
    \/ StatusReturns

Spec == Init /\ [][Next]_vars

\* Every upstream HTTP call and every pacing delay eventually returns.
FairSpec == Spec /\ WF_vars(Next)

\* The same calls under every configuration and every requested detail count,
\* with short batches.
PageBatchInputs == {[i \in 1..n |-> SearchNames[i]] : n \in {1, 2}}
PageDetailCounts == {None} \cup {Some(d) : d \in 0..MaxDetailsReq}
PageInit ==
    /\ config \in Configs
    /\ \/ /\ op = "batch"
          /\ searches \in PageBatchInputs
          /\ max_details_per_search \in PageDetailCounts
          /\ avail \in {0, 2}
       \/ /\ op = "status"
          /\ searches = <<>>
          /\ max_details_per_search = None
          /\ avail \in 0..StatusProbeSize
    /\ pc = "idle"
    /\ search_idx = 0
    /\ detail_idx = 0
    /\ search_result = None
    /\ jobs_with_details = <<>>
    /\ results = <<>>
    /\ ret = None
    /\ log = <<>>
    /\ faults = 0
    /\ ext = NoRecord
    /\ norm = None

SpecPage == PageInit /\ [][Next]_vars

\* ------------------------------------------- specification of the normalizer
\* The normalizer is a pure function: the inputs are drawn in NormInit and one
\* action applies the closure of search_jobs or the body of get_job_details.
ListingInputs == {[kind |-> "listing", refnr |-> j.refnr, rec |-> j] : j \in ApiJobListings}
DetailsInputs ==
    {[kind |-> "details", refnr |-> r, rec |-> d] :
        r \in NormRefNrs, d \in ApiJobDetailsRecs}

NormInit ==
    /\ config = DefaultConfig
    /\ op = "normalize"
    /\ searches = <<>>
    /\ max_details_per_search = None
    /\ avail = 0
    /\ pc = "idle"
    /\ search_idx = 0
    /\ detail_idx = 0
    /\ search_result = None
    /\ jobs_with_details = <<>>
    /\ results = <<>>
    /\ ret = None
    /\ log = <<>>
    /\ faults = 0
    /\ ext \in ListingInputs \cup DetailsInputs
    /\ norm = None

\* search_jobs, lines 499-523: one listing of the response is mapped.
NormalizeListing ==
    /\ ext.kind = "listing"
    /\ IsNone(norm)
    /\ norm' = Some(JobSummaryOf(ext.rec))
    /\ UNCHANGED <<ext, batchVars>>

\* get_job_details, lines 546-601: the details document is mapped.
NormalizeDetails ==
    /\ ext.kind = "details"
    /\ IsNone(norm)
    /\ norm' = Some(GetJobDetailsResultOf(ext.refnr, ext.rec))
    /\ UNCHANGED <<ext, batchVars>>

NormNext ==
    \/ NormalizeListing
    \/ NormalizeDetails

SpecNorm == NormInit /\ [][NormNext]_vars

\* ================================================================== claims
\* Readings of the history log.
LogIdx == 1..Len(log)
IsCall(e) == e.ev \in {"search", "detail"}
IsRet(e) == e.ev \in {"search_ret", "detail_ret"}
HttpCalls == SelectSeq(log, IsCall)
HttpEvents == SelectSeq(log, LAMBDA e : IsCall(e) \/ IsRet(e))
SearchCalls == SelectSeq(log, LAMBDA e : e.ev = "search")
SearchRetsOf(i) == SelectSeq(log, LAMBDA e : e.ev = "search_ret" /\ e.item = i)
DetailCallsOf(i) == SelectSeq(log, LAMBDA e : e.ev = "detail" /\ e.item = i)
DetailRetsOf(i) == SelectSeq(log, LAMBDA e : e.ev = "detail_ret" /\ e.item = i)
DetailSuccesses(i) ==
    SelectSeq(log, LAMBDA e : e.ev = "detail_ret" /\ e.item = i /\ e.res = 1)
SearchFailed(i) == \E p \in LogIdx :
    log[p].ev = "search_ret" /\ log[p].item = i /\ log[p].res = -1
RefsOf(jobs) == [y \in 1..Len(jobs) |-> jobs[y].reference_number]
DetsOf(events) == [y \in 1..Len(events) |-> events[y].det]
BatchDone == op = "batch" /\ pc = "done"
Processed == Min(Len(searches), 5)
ClampedDetails == Min(UnwrapOr(max_details_per_search, 2), 5)

\* C1: when batch_search_jobs returns, the outcome list has exactly
\* min(n, 5) entries, searches_count is that same number, and every item whose
\* search was issued has an outcome; while the call runs, the outcomes
\* recorded so far are exactly those of the items already left behind.
C1_OutcomeCount ==
    /\ BatchDone =>
          LET sc == SearchCalls IN
          /\ IsSome(ret)
          /\ Len(Unwrap(ret).results) = Processed
          /\ Unwrap(ret).searches_count = Processed
          /\ \A a \in 1..Len(sc) : sc[a].item + 1 <= Len(Unwrap(ret).results)
          /\ \A i \in 0..(Processed - 1) : \E a \in 1..Len(sc) : sc[a].item = i
    /\ (op = "batch" /\ pc \notin {"idle", "done"}) =>
          /\ Len(results) = search_idx
          /\ search_idx < Processed

\* C1 witness: six searches were requested, five outcomes were returned, one
\* of them the outcome of a failed search.
C1_Witness ==
    /\ BatchDone
    /\ Len(searches) = 6
    /\ Len(Unwrap(ret).results) = 5
    /\ \E i \in 1..5 : IsSome(Unwrap(ret).results[i].error)
    /\ \E i \in 1..5 : Unwrap(ret).results[i].jobs_count > 0

\* C2: only the first 5 requested searches are processed, in input order: the
\* i-th outcome carries the name of the i-th requested search, the searches
\* are issued in increasing item order, each processed item exactly once
\* before the call returns, and no upstream request is ever issued for an
\* item at position 6 or later.
C2_InputOrder ==
    op = "batch" =>
       LET sc == SearchCalls IN
       /\ \A i \in 1..Len(results) : results[i].search_name = searches[i]
       /\ \A p \in LogIdx : IsCall(log[p]) => log[p].item < 5
       /\ \A a \in 1..Len(sc) : sc[a].item = a - 1
       /\ BatchDone =>
             /\ \A i \in 1..Processed :
                   Unwrap(ret).results[i].search_name = searches[i]
             /\ Len(sc) = Processed

\* C2 witness: more than five searches were requested and the call returned
\* after issuing five searches.
C2_Witness ==
    /\ BatchDone
    /\ Len(searches) > 5
    /\ Len(SearchCalls) = 5
    /\ Unwrap(ret).results[5].search_name = "s5"

\* C3: a failed search never aborts the batch. Stated on the step in which
\* the search of item i completes with a failure (HTTP or decode): no detail
\* fetch has been issued for item i, and when i is not the last processed
\* item the call goes on: it is at the pacing delay that precedes the search
\* of item i+1 (SearchWake then issues that search).
C3_FailedSearchContinues ==
    [][\A i \in 0..4 :
          (op = "batch" /\ pc = "await_search" /\ search_idx = i
              /\ SearchFailed(i)')
          => /\ DetailCallsOf(i)' = <<>>
             /\ i + 1 < Processed =>
                   pc' = "sleep_search" /\ search_idx' = i + 1]_vars

\* C4: a failed detail fetch only omits that one job. For every recorded
\* outcome of an item whose search succeeded: a detail fetch was attempted
\* for each of the first min(returned summaries, clamped detail count)
\* summaries, in order, whatever failed before; the job list holds exactly the
\* successfully fetched details in summary order, each with the reference
\* number of its summary; jobs_count is the length of that list;
\* total_results is the total the search reported; error is absent.
C4_DetailFailureIsolated ==
    op = "batch" =>
       \A x \in 1..Len(results) :
          LET i == x - 1
              r == results[x]
              sret == SearchRetsOf(i)
              attempts == DetailCallsOf(i)
              fetched == DetailSuccesses(i)
          IN ~SearchFailed(i) =>
                /\ Len(sret) = 1
                /\ DetsOf(attempts)
                      = [y \in 1..Min(sret[1].res, ClampedDetails) |-> y - 1]
                /\ RefsOf(r.jobs)
                      = [y \in 1..Len(fetched) |-> RefNrs[fetched[y].det + 1]]
                /\ r.jobs_count = Len(r.jobs)
                /\ r.total_results = sret[1].tot
                /\ IsNone(r.error)

\* C4 witness: an outcome whose job list lacks a summary that failed and holds
\* a later one that was fetched after the failure.
C4_Witness ==
    /\ op = "batch"
    /\ \E x \in 1..Len(results) :
          LET rets == DetailRetsOf(x - 1) IN
          /\ IsNone(results[x].error)
          /\ results[x].jobs_count >= 2
          /\ \E a, b \in 1..Len(rets) :
                a < b /\ rets[a].res = 0 /\ rets[b].res = 1

\* C5: every outcome is either a detail list or an error message, never both:
\* error is present, and non-empty, exactly when the search of the item
\* failed, and then the job list is empty, jobs_count is 0 and total_results
\* is absent; when error is absent the outcome carries the gathered details.
C5_ErrorXorDetails ==
    op = "batch" =>
       \A x \in 1..Len(results) :
          LET r == results[x]
              fetched == DetailSuccesses(x - 1)
          IN /\ IsSome(r.error) <=> SearchFailed(x - 1)
             /\ IsSome(r.error) =>
                   /\ Len(Unwrap(r.error)) > 0
                   /\ r.jobs = <<>>
                   /\ r.jobs_count = 0
                   /\ IsNone(r.total_results)
             /\ IsNone(r.error) =>
                   r.jobs = [y \in 1..Len(fetched) |->
                               GetJobDetailsResultOf(RefNrs[fetched[y].det + 1],
                                                     UpstreamDetails)]
             /\ ~(IsSome(r.error) /\ Len(r.jobs) > 0)

\* C5 witness: the call returned an error outcome and an outcome with details.
C5_Witness ==
    /\ BatchDone
    /\ \E x \in 1..Len(results) :
          IsSome(results[x].error) /\ results[x].jobs = <<>>
    /\ \E x \in 1..Len(results) :
          IsNone(results[x].error) /\ Len(results[x].jobs) > 0

\* C6: batch_search_jobs and get_server_status always complete with a success
\* result, whatever sub-calls fail, provided every upstream call and every
\* pacing delay returns (FairSpec).
C6_AlwaysCompletes == <>(pc = "done" /\ IsSome(ret))

\* C7: at most one upstream HTTP request is outstanding at any time. In the
\* history of a call, requests and their returns alternate strictly, starting
\* with a request, and every return is the return of the request before it:
\* no request is issued before the previous one has returned.
C7_OneInFlight ==
    LET h == HttpEvents IN
    \A k \in 1..Len(h) :
       /\ k % 2 = 1 => IsCall(h[k])
       /\ k % 2 = 0 =>
             /\ IsRet(h[k])
             /\ h[k].item = h[k - 1].item
             /\ h[k].det = h[k - 1].det
             /\ (h[k].ev = "search_ret") = (h[k - 1].ev = "search")

\* C7 witness: a request is outstanding after a detail fetch followed a detail
\* fetch and a search followed a detail fetch.
C7_Witness ==
    /\ op = "batch"
    /\ pc \in {"await_search", "await_detail"}
    /\ Len(HttpEvents) % 2 = 1
    /\ \E p \in LogIdx : log[p].ev = "detail" /\ log[p].det > 0
    /\ \E p \in LogIdx : log[p].ev = "search" /\ log[p].item > 0
                            /\ DetailCallsOf(log[p].item - 1) # <<>>

\* C8: one call issues at most 30 upstream HTTP calls: at most 5 searches,
\* one per processed item and never repeated, and per item at most
\* min(requested detail count or 2, 5) detail fetches, at most one per
\* returned summary and never repeated.
C8_CallBudget ==
    op = "batch" =>
       LET sc == SearchCalls IN
       /\ Len(HttpCalls) <= 30
       /\ Len(sc) <= 5
       /\ \A a, b \in 1..Len(sc) : sc[a].item = sc[b].item => a = b
       /\ \A a \in 1..Len(sc) : sc[a].item < Processed
       /\ \A i \in 0..4 :
             LET dc == DetailCallsOf(i)
                 sret == SearchRetsOf(i)
             IN /\ Len(dc) <= ClampedDetails
                /\ \A a, b \in 1..Len(dc) : dc[a].det = dc[b].det => a = b
                /\ dc # <<>> =>
                      /\ Len(sret) = 1
                      /\ \A a \in 1..Len(dc) : dc[a].det < sret[1].res

\* C8 witness: the call returned after exactly 30 upstream calls, the upstream
\* having returned more summaries than the 5 that were asked for.
C8_Witness ==
    /\ BatchDone
    /\ Len(HttpCalls) = 30
    /\ \A i \in 0..4 : SearchRetsOf(i)[1].res > 5

\* C9: pacing order. Every search but the first is directly preceded by one
\* 200 ms delay that started right after the last upstream call of the
\* previous item returned (its search when that failed or gave no detail
\* fetch); every detail fetch but the first of its search is directly
\* preceded by one 100 ms delay that started when the previous detail fetch
\* returned, failed or not; the first search and the first detail fetch of a
\* search are preceded by no delay.
C9_PacingOrder ==
    op = "batch" =>
       \A p \in LogIdx :
          LET e == log[p] IN
             /\ (e.ev = "search" /\ e.item = 0) => p = 1
             /\ (e.ev = "search" /\ e.item > 0) =>
                   /\ p > 3
                   /\ log[p - 1].ev = "wake" /\ log[p - 1].res = 200
                   /\ log[p - 2].ev = "sleep" /\ log[p - 2].res = 200
                   /\ IsRet(log[p - 3]) /\ log[p - 3].item = e.item - 1
                   /\ \A q \in (p - 2)..Len(log) :
                         ~(IsCall(log[q]) /\ log[q].item = e.item - 1)
                   /\ Len(SearchRetsOf(e.item - 1)) + Len(DetailRetsOf(e.item - 1))
                         = 1 + Len(DetailCallsOf(e.item - 1))
             /\ (e.ev = "detail" /\ e.det = 0) =>
                   /\ p > 1
                   /\ log[p - 1].ev = "search_ret" /\ log[p - 1].item = e.item
             /\ (e.ev = "detail" /\ e.det > 0) =>
                   /\ p > 3
                   /\ log[p - 1].ev = "wake" /\ log[p - 1].res = 100
                   /\ log[p - 2].ev = "sleep" /\ log[p - 2].res = 100
                   /\ log[p - 3].ev = "detail_ret" /\ log[p - 3].item = e.item
                   /\ log[p - 3].det = e.det - 1
             /\ e.ev = "sleep" => (p < Len(log) => log[p + 1].ev = "wake")

\* C9 witness: a search was issued after the delay that followed the failed
\* search of the previous item, and a detail fetch other than the first of its
\* search was issued after its delay.
C9_Witness ==
    /\ op = "batch"
    /\ \E p \in LogIdx :
          /\ p > 3
          /\ log[p].ev = "search"
          /\ log[p - 3].ev = "search_ret" /\ log[p - 3].res = -1
    /\ \E p \in LogIdx :
          /\ p > 3
          /\ log[p].ev = "detail" /\ log[p].det > 0
          /\ log[p - 2].ev = "sleep" /\ log[p - 2].res = 100

\* C10: application_url is never empty in any normalized record: it is the
\* external URL when that is present, else (details only) the partner URL
\* when that is present, else the canonical URL of the reference number, and
\* it is a non-empty string.
C10_ApplicationUrlNeverEmpty ==
    IsSome(norm) =>
       LET rec == ext.rec
           url == Unwrap(norm).application_url
       IN /\ IsSome(rec.externe_url) => url = Unwrap(rec.externe_url)
          /\ (IsNone(rec.externe_url) /\ ext.kind = "details"
                 /\ IsSome(rec.allianzpartner_url)) =>
                url = Unwrap(rec.allianzpartner_url)
          /\ (IsNone(rec.externe_url)
                 /\ (ext.kind = "listing" \/ IsNone(rec.allianzpartner_url))) =>
                url = "https://www.arbeitsagentur.de/jobsuche/jobdetail/" \o ext.refnr
          /\ url # ""

\* The rendering of an entry period from its two optional sides, as the
\* specification states it.
RenderedPeriod(von, bis) ==
    IF IsSome(von) /\ IsSome(bis) THEN Unwrap(von) \o " - " \o Unwrap(bis)
    ELSE IF IsSome(von) THEN "ab " \o Unwrap(von)
    ELSE IF IsSome(bis) THEN "bis " \o Unwrap(bis)
    ELSE ""
NormalizedDetails == IsSome(norm) /\ ext.kind = "details"
NormalizedListing == IsSome(norm) /\ ext.kind = "listing"

\* C11 (as claimed): for every detail record entry_period is present and is
\* the rendering of from/to, the empty string when neither is present, also
\* when the record has no entry-period range at all.
C11_EntryPeriodAlwaysPresent ==
    NormalizedDetails =>
       LET range == ext.rec.eintrittszeitraum
           von == IF IsSome(range) THEN Unwrap(range).von ELSE None
           bis == IF IsSome(range) THEN Unwrap(range).bis ELSE None
       IN Unwrap(norm).entry_period = Some(RenderedPeriod(von, bis))

\* C11 (amended): when the detail record has an entry-period range,
\* entry_period is present and is "{from} - {to}", "ab {from}", "bis {to}" or
\* the empty string (present, not absent) as from/to are present; when the
\* record has no entry-period range at all, entry_period is absent.
C11_EntryPeriod ==
    NormalizedDetails =>
       LET range == ext.rec.eintrittszeitraum
           period == Unwrap(norm).entry_period
       IN /\ IsNone(range) => period = None
          /\ IsSome(range) =>
                /\ period = Some(RenderedPeriod(Unwrap(range).von, Unwrap(range).bis))
                /\ (Unwrap(range).von = Some("2024-01-01")
                       /\ Unwrap(range).bis = Some("2024-06-01"))
                      => period = Some("2024-01-01 - 2024-06-01")
                /\ (Unwrap(range).von = Some("2024-01-01") /\ IsNone(Unwrap(range).bis))
                      => period = Some("ab 2024-01-01")
                /\ (IsNone(Unwrap(range).von) /\ Unwrap(range).bis = Some("2024-06-01"))
                      => period = Some("bis 2024-06-01")
                /\ (IsNone(Unwrap(range).von) /\ IsNone(Unwrap(range).bis))
                      => period = Some("")

\* C11 witness: a detail record whose range has neither side was normalized
\* to a present, empty entry period.
C11_Witness ==
    /\ NormalizedDetails
    /\ ext.rec.eintrittszeitraum = Some([von |-> None, bis |-> None])
    /\ Unwrap(norm).entry_period = Some("")

\* C12: location rendering. Summary: town and postal code give
\* "{town} ({postal_code})", town only "{town}", postal code only exactly
\* "({postal_code})" with no leading space, neither the empty string. Detail:
\* the first workplace address, if any, with the same optional suffix.
C12_LocationRendering ==
    /\ NormalizedListing =>
          LET ort == ext.rec.ort
              plz == ext.rec.plz
              location == Unwrap(norm).location
          IN /\ (IsSome(ort) /\ IsSome(plz)) =>
                   location = Unwrap(ort) \o " (" \o Unwrap(plz) \o ")"
             /\ (IsSome(ort) /\ IsNone(plz)) => location = Unwrap(ort)
             /\ (IsNone(ort) /\ IsSome(plz)) => location = "(" \o Unwrap(plz) \o ")"
             /\ (IsNone(ort) /\ IsNone(plz)) => location = ""
    /\ NormalizedDetails =>
          LET orte == ext.rec.arbeitsorte
              location == Unwrap(norm).location
          IN /\ (IsNone(orte) \/ orte = Some(<<>>)) => location = None
             /\ (IsSome(orte) /\ orte # Some(<<>>)
                    /\ IsSome(Unwrap(orte)[1].adresse)
                    /\ IsSome(Unwrap(Unwrap(orte)[1].adresse).ort)) =>
                   LET addr == Unwrap(Unwrap(orte)[1].adresse) IN
                   location = Some(Unwrap(addr.ort) \o
                       (IF IsSome(addr.plz) THEN " (" \o Unwrap(addr.plz) \o ")"
                        ELSE ""))

\* C14: title fallback of a search summary. When the display title is absent
\* the title is the occupation label; the title is not empty when the record
\* has a display title or an occupation label; it is empty only if both are
\* absent. An absent occupation label decodes to the empty string, and an
\* empty display title is counted as no display title.
C14_TitleFallback ==
    NormalizedListing =>
       LET titel == ext.rec.titel
           beruf == ext.rec.beruf
           title == Unwrap(norm).title
           hasTitel == IsSome(titel) /\ Unwrap(titel) # ""
           hasBeruf == beruf # ""
       IN /\ IsNone(titel) => title = beruf
          /\ (hasTitel \/ hasBeruf) => title # ""
          /\ title = "" => (~hasTitel /\ ~hasBeruf)

\* C13 (as claimed): every search that batch_search_jobs sends carries the
\* clamped detail count min(requested or 2, 5) as its page size, whatever the
\* configured default and maximum page size.
C13_PageSizeIsClampedCount ==
    op = "batch" =>
       \A p \in LogIdx : log[p].ev = "search" => log[p].res = ClampedDetails

\* C13 (amended): every search that batch_search_jobs sends carries the page
\* size min(clamped detail count, configured maximum page size); this is the
\* clamped detail count whenever the configured maximum is at least that
\* count, and the configured default page size plays no role.
C13_PageSize ==
    op = "batch" =>
       \A p \in LogIdx :
          log[p].ev = "search" =>
             /\ log[p].res = Min(ClampedDetails, config.max_page_size)
             /\ config.max_page_size >= ClampedDetails => log[p].res = ClampedDetails

\* C13 witness: the second search of a batch went out with the configured
\* maximum page size, below the clamped detail count.
C13_Witness ==
    /\ op = "batch"
    /\ \E p \in LogIdx :
          /\ log[p].ev = "search"
          /\ log[p].item = 1
          /\ log[p].res = config.max_page_size
          /\ log[p].res < ClampedDetails

\* The upstream calls and the starts of pacing delays, in order.
IsSleep(e) == e.ev = "sleep"
CallsAndDelays == SelectSeq(log, LAMBDA e : IsCall(e) \/ IsSleep(e))
\* Every pacing delay starts right after an upstream call has returned and
\* ends with the next call being issued.
DelaysSitBetweenCalls ==
    \A p \in LogIdx :
       /\ log[p].ev = "sleep" => (p > 1 /\ IsRet(log[p - 1]))
       /\ log[p].ev = "wake" =>
             (p > 1 /\ log[p - 1].ev = "sleep" /\ p < Len(log) /\ IsCall(log[p + 1]))

\* C15 (as claimed): in one batch_search_jobs call a pacing delay lies between
\* every two consecutive upstream calls (search then its first detail fetch,
\* detail then detail, last call of an item then the next search), after the
\* first has completed and before the second is issued.
C15_DelayBetweenAllCalls ==
    op = "batch" =>
       LET cd == CallsAndDelays IN
       /\ \A k \in 1..(Len(cd) - 1) : ~(IsCall(cd[k]) /\ IsCall(cd[k + 1]))
       /\ DelaysSitBetweenCalls

\* C15 (amended): in one batch_search_jobs call exactly one pacing delay lies
\* between two consecutive upstream calls (detail then detail, last call of an
\* item then the next search), after the first has completed and before the
\* second is issued, except between a search and the first detail fetch of
\* that search, which is issued with no delay.
C15_PacingBetweenCalls ==
    op = "batch" =>
       LET cd == CallsAndDelays IN
       /\ \A k \in 1..(Len(cd) - 1) :
             /\ (IsCall(cd[k]) /\ IsCall(cd[k + 1])) =>
                   /\ cd[k].ev = "search"
                   /\ cd[k + 1].ev = "detail"
                   /\ cd[k + 1].det = 0
                   /\ cd[k + 1].item = cd[k].item
             /\ (cd[k + 1].ev = "detail" /\ cd[k + 1].det = 0) =>
                   (cd[k].ev = "search" /\ cd[k].item = cd[k + 1].item)
             /\ ~(IsSleep(cd[k]) /\ IsSleep(cd[k + 1]))
       /\ (Len(cd) > 0 => cd[1].ev = "search")
       /\ DelaysSitBetweenCalls

\* C15 witness: a search was followed at once by its first detail fetch, a
\* delay and the second detail fetch, and a later search followed a detail
\* fetch and a delay.
C15_Witness ==
    /\ op = "batch"
    /\ LET cd == CallsAndDelays IN
       /\ \E k \in 1..(Len(cd) - 3) :
             /\ cd[k].ev = "search"
             /\ cd[k + 1].ev = "detail" /\ cd[k + 1].det = 0
             /\ IsSleep(cd[k + 2])
             /\ cd[k + 3].ev = "detail" /\ cd[k + 3].det = 1
       /\ \E k \in 1..(Len(cd) - 2) :
             /\ cd[k].ev = "detail"
             /\ IsSleep(cd[k + 1])
             /\ cd[k + 2].ev = "search"

====
